---- MODULE Spec2Model ----
(***************************************************************************)
(* Model of scripts/convert_to_docx.py: main() and the line loop of        *)
(* convert_markdown_to_docx().  Strings are sequences of one-character     *)
(* strings; the document is the sequence of paragraphs added to it.        *)
(***************************************************************************)
EXTENDS Integers, Sequences, FiniteSets, TLC

VARIABLES pc, md_exists, md_content, in_try, lines, idx,
          in_code_block, code_block_content, doc, saved, out

vars == <<pc, md_exists, md_content, in_try, lines, idx,
          in_code_block, code_block_content, doc, saved, out>>

(* ------------------------------ bounds --------------------------------- *)
MaxBodyLen == 3
MaxLines == 6

(* --------------------------- string helpers ---------------------------- *)
(* BQ stands for the backquote character U+0060, which a TLA+ string literal
   cannot contain. *)
BQ == "bq"
NL == <<"\n">>
FenceMark == <<BQ, BQ, BQ>>
BoldMark == <<"*", "*">>
RuleWidth == 50
Digits == {"1", "2"}
Whitespace == {" ", "\t"}

StartsWith(s, p) == Len(s) >= Len(p) /\ SubSeq(s, 1, Len(p)) = p

From(s, k) == SubSeq(s, k + 1, Len(s))

Contains(s, p) == \E i \in 1..Len(s) : StartsWith(SubSeq(s, i, Len(s)), p)

RECURSIVE SplitAcc(_, _, _, _)
SplitAcc(s, sep, i, cur) ==
    IF i > Len(s) THEN <<cur>>
    ELSE IF StartsWith(SubSeq(s, i, Len(s)), sep)
         THEN <<cur>> \o SplitAcc(s, sep, i + Len(sep), <<>>)
         ELSE SplitAcc(s, sep, i + 1, Append(cur, s[i]))

Split(s, sep) == SplitAcc(s, sep, 1, <<>>)

RECURSIVE Join(_, _)
Join(parts, sep) ==
    IF Len(parts) = 0 THEN <<>>
    ELSE IF Len(parts) = 1 THEN parts[1]
    ELSE parts[1] \o sep \o Join(Tail(parts), sep)

Find(s, c) ==
    IF \E i \in 1..Len(s) : s[i] = c
    THEN (CHOOSE i \in 1..Len(s) : s[i] = c /\ \A j \in 1..(i - 1) : s[j] # c) - 1
    ELSE -1

RECURSIVE LStrip(_)
LStrip(s) == IF Len(s) > 0 /\ s[1] \in Whitespace THEN LStrip(Tail(s)) ELSE s

RECURSIVE RStrip(_)
RStrip(s) ==
    IF Len(s) > 0 /\ s[Len(s)] \in Whitespace
    THEN RStrip(SubSeq(s, 1, Len(s) - 1)) ELSE s

Strip(s) == RStrip(LStrip(s))

RECURSIVE DigitRun(_)
DigitRun(s) == IF Len(s) > 0 /\ s[1] \in Digits THEN 1 + DigitRun(Tail(s)) ELSE 0

MatchNumbered(s) ==
    LET k == DigitRun(s) IN k >= 1 /\ StartsWith(From(s, k), <<".", " ">>)

(* ------------------------------ blocks --------------------------------- *)
Block(k, lv, t, r) == [kind |-> k, level |-> lv, text |-> t, runs |-> r]

add_heading(t, lv) == Block("Heading", lv, t, <<>>)

(* Variant: the parity test of the run index is inverted. *)
BoldRuns_Flipped(parts) ==
    [i \in 1..Len(parts) |-> [text |-> parts[i], bold |-> ((i - 1) % 2 = 0)]]

BoldRuns(parts) ==
    [i \in 1..Len(parts) |-> [text |-> parts[i], bold |-> ((i - 1) % 2 # 0)]]

(* Variant: the level-1 test forgets the space after the hash. *)
IsHeading1_NoSpace(line) == StartsWith(line, <<"#">>)

IsHeading1(line) == StartsWith(line, <<"#", " ">>)

(* Variant: the numbered prefix is assumed to be three characters long. *)
NumberedText_FixedPrefix(line) == From(line, 3)

NumberedText(line) == From(line, Find(line, " ") + 1)

(* Variant: the paragraph keeps the trimmed line. *)
ParagraphBlock_Stripped(line) == Block("Paragraph", 0, Strip(line), <<>>)

ParagraphBlock(line) == Block("Paragraph", 0, line, <<>>)

(* Variant: the list rules are tried before the bold rule. *)
ClassifyLine_ListBeforeBold(line) ==
    IF IsHeading1(line) THEN add_heading(From(line, 2), 1)
    ELSE IF StartsWith(line, <<"#", "#", " ">>) THEN add_heading(From(line, 3), 2)
    ELSE IF StartsWith(line, <<"#", "#", "#", " ">>) THEN add_heading(From(line, 4), 3)
    ELSE IF StartsWith(line, <<"#", "#", "#", "#", " ">>) THEN add_heading(From(line, 5), 4)
    ELSE IF StartsWith(line, <<"-", "-", "-">>)
         THEN Block("Rule", 0, [i \in 1..RuleWidth |-> "_"], <<>>)
    ELSE IF StartsWith(line, <<"-", " ">>) THEN Block("BulletItem", 0, From(line, 2), <<>>)
    ELSE IF MatchNumbered(line)
         THEN Block("NumberedItem", 0, NumberedText(line), <<>>)
    ELSE IF Contains(line, BoldMark)
         THEN Block("MixedParagraph", 0, <<>>, BoldRuns(Split(line, BoldMark)))
    ELSE IF Strip(line) # <<>> THEN ParagraphBlock(line)
    ELSE Block("BlankLine", 0, <<>>, <<>>)

ClassifyLine(line) ==
    IF IsHeading1(line) THEN add_heading(From(line, 2), 1)
    ELSE IF StartsWith(line, <<"#", "#", " ">>) THEN add_heading(From(line, 3), 2)
    ELSE IF StartsWith(line, <<"#", "#", "#", " ">>) THEN add_heading(From(line, 4), 3)
    ELSE IF StartsWith(line, <<"#", "#", "#", "#", " ">>) THEN add_heading(From(line, 5), 4)
    ELSE IF StartsWith(line, <<"-", "-", "-">>)
         THEN Block("Rule", 0, [i \in 1..RuleWidth |-> "_"], <<>>)
    ELSE IF Contains(line, BoldMark)
         THEN Block("MixedParagraph", 0, <<>>, BoldRuns(Split(line, BoldMark)))
    ELSE IF StartsWith(line, <<"-", " ">>) THEN Block("BulletItem", 0, From(line, 2), <<>>)
    ELSE IF MatchNumbered(line)
         THEN Block("NumberedItem", 0, NumberedText(line), <<>>)
    ELSE IF Strip(line) # <<>> THEN ParagraphBlock(line)
    ELSE Block("BlankLine", 0, <<>>, <<>>)

(* ---------------------------- loop body -------------------------------- *)
State(in, buf, d) == [in_code_block |-> in, code_block_content |-> buf, doc |-> d]

IsFenceLine(line) == StartsWith(line, FenceMark)

(* Variant: the closing delimiter emits the buffer even when it is empty. *)
FenceToggle_EmitsEmpty(st) ==
    IF st.in_code_block
    THEN State(FALSE, <<>>,
               Append(st.doc, Block("CodeBlock", 0, Join(st.code_block_content, NL), <<>>)))
    ELSE State(TRUE, st.code_block_content, st.doc)

(* Variant: the closing delimiter does not reset the buffer. *)
FenceToggle_KeepsBuffer(st) ==
    IF st.in_code_block
    THEN State(FALSE, st.code_block_content,
               IF st.code_block_content # <<>>
               THEN Append(st.doc, Block("CodeBlock", 0, Join(st.code_block_content, NL), <<>>))
               ELSE st.doc)
    ELSE State(TRUE, st.code_block_content, st.doc)

FenceToggle(st) ==
    IF st.in_code_block
    THEN State(FALSE, <<>>,
               IF st.code_block_content # <<>>
               THEN Append(st.doc, Block("CodeBlock", 0, Join(st.code_block_content, NL), <<>>))
               ELSE st.doc)
    ELSE State(TRUE, st.code_block_content, st.doc)

BufferLine(st, line) ==
    State(st.in_code_block, Append(st.code_block_content, line), st.doc)

EmitLine(st, line) ==
    State(st.in_code_block, st.code_block_content, Append(st.doc, ClassifyLine(line)))

(* Variant: no "continue" after the delimiter branch. *)
LoopBody_FenceFallsThrough(st, line) ==
    IF IsFenceLine(line)
    THEN LET t == FenceToggle(st) IN
           IF t.in_code_block THEN BufferLine(t, line) ELSE EmitLine(t, line)
    ELSE IF st.in_code_block THEN BufferLine(st, line)
    ELSE EmitLine(st, line)

(* Variant: no "continue" after buffering a line inside a fence. *)
LoopBody_BufferedAlsoClassified(st, line) ==
    IF IsFenceLine(line) THEN FenceToggle(st)
    ELSE IF st.in_code_block THEN EmitLine(BufferLine(st, line), line)
    ELSE EmitLine(st, line)

LoopBody(st, line) ==
    IF IsFenceLine(line) THEN FenceToggle(st)
    ELSE IF st.in_code_block THEN BufferLine(st, line)
    ELSE EmitLine(st, line)

(* ------------------------------ inputs --------------------------------- *)
SeqsUpTo(S, n) == UNION {[1..k -> S] : k \in 0..n}

BodyAlphabet == {"x", " ", "*", "#", "-", "1", ".", BQ}

Prefixes ==
    { <<>>, <<"#", " ">>, <<"#", "#", " ">>, <<"#", "#", "#", " ">>,
      <<"#", "#", "#", "#", " ">>, <<"#", "#", "#", "#", "#", " ">>,
      <<"-", "-", "-">>, <<"-", " ">>, <<"1", ".", " ">>, <<"1", "2", ".", " ">>,
      <<"2", " ">>, <<"\t">>, <<"*", "*", "x", "*", "*">>, FenceMark }

BoldExample ==
    <<"*", "*", "b", "o", "l", "d", "*", "*", " ", "a", "n", "d", " ",
      "p", "l", "a", "i", "n">>
Item == <<"i", "t", "e", "m">>
BulletExample == <<"-", " ">> \o Item
NumberedExample == <<"1", ".", " ">> \o Item

SingleLines ==
    {p \o b : p \in Prefixes, b \in SeqsUpTo(BodyAlphabet, MaxBodyLen)}
        \cup {BoldExample, BulletExample, NumberedExample}

Line1 == <<"l", "i", "n", "e", "1">>
Line2 == <<"l", "i", "n", "e", "2">>

PoolLines == {FenceMark, Line1, <<"#", " ", "x">>, <<>>}

FenceExample == <<FenceMark, Line1, Line2, FenceMark>>

Documents ==
    SingleLines
        \cup {Join(d, NL) : d \in SeqsUpTo(PoolLines, MaxLines)}
        \cup {Join(FenceExample, NL), Join(<<FenceMark, Line2>>, NL)}

(* ------------------------------ actions -------------------------------- *)
Init ==
    /\ pc = "main"
    /\ \/ md_exists = FALSE /\ md_content = <<>>
       \/ md_exists = TRUE /\ md_content \in Documents
    /\ in_try = FALSE
    /\ lines = <<>>
    /\ idx = 0
    /\ in_code_block = FALSE
    /\ code_block_content = <<>>
    /\ doc = <<>>
    /\ saved = FALSE
    /\ out = <<>>

Raise(handled) == IF handled THEN "except" ELSE "raised"

(* Variant: the conversion is called outside the try block. *)
MainEntry_NoTry(exists) ==
    IF exists THEN [pc |-> "read", in_try |-> FALSE, out |-> <<>>]
    ELSE [pc |-> "done", in_try |-> FALSE, out |-> <<"not_found">>]

MainEntry(exists) ==
    IF exists THEN [pc |-> "read", in_try |-> TRUE, out |-> <<>>]
    ELSE [pc |-> "done", in_try |-> FALSE, out |-> <<"not_found">>]

Main ==
    /\ pc = "main"
    /\ LET r == MainEntry(md_exists) IN
         /\ pc' = r.pc
         /\ in_try' = r.in_try
         /\ out' = r.out
    /\ UNCHANGED <<md_exists, md_content, lines, idx, in_code_block,
                   code_block_content, doc, saved>>

ReadMarkdown ==
    /\ pc = "read"
    /\ \E ok \in BOOLEAN :
         IF ok
         THEN /\ lines' = Split(md_content, NL)
              /\ idx' = 1
              /\ in_code_block' = FALSE
              /\ code_block_content' = <<>>
              /\ doc' = <<>>
              /\ pc' = "loop"
         ELSE /\ pc' = Raise(in_try)
              /\ UNCHANGED <<lines, idx, in_code_block, code_block_content, doc>>
    /\ UNCHANGED <<md_exists, md_content, in_try, saved, out>>

ProcessLine ==
    /\ pc = "loop"
    /\ idx <= Len(lines)
    /\ LET st == LoopBody(State(in_code_block, code_block_content, doc), lines[idx]) IN
         /\ in_code_block' = st.in_code_block
         /\ code_block_content' = st.code_block_content
         /\ doc' = st.doc
    /\ idx' = idx + 1
    /\ pc' = IF idx + 1 > Len(lines) THEN "save" ELSE "loop"
    /\ UNCHANGED <<md_exists, md_content, in_try, lines, saved, out>>

Save ==
    /\ pc = "save"
    /\ \E ok \in BOOLEAN :
         IF ok
         THEN /\ saved' = TRUE
              /\ out' = Append(out, "converted")
              /\ pc' = "report"
         ELSE /\ pc' = Raise(in_try)
              /\ UNCHANGED <<saved, out>>
    /\ UNCHANGED <<md_exists, md_content, in_try, lines, idx, in_code_block,
                   code_block_content, doc>>

ReportSuccess ==
    /\ pc = "report"
    /\ out' = out \o <<"success", "saved_as">>
    /\ in_try' = FALSE
    /\ pc' = "done"
    /\ UNCHANGED <<md_exists, md_content, lines, idx, in_code_block,
                   code_block_content, doc, saved>>

ReportError ==
    /\ pc = "except"
    /\ out' = Append(out, "error")
    /\ in_try' = FALSE
    /\ pc' = "done"
    /\ UNCHANGED <<md_exists, md_content, lines, idx, in_code_block,
                   code_block_content, doc, saved>>

Next == Main \/ ReadMarkdown \/ ProcessLine \/ Save \/ ReportSuccess \/ ReportError

Spec == Init /\ [][Next]_vars

TypeOK ==
    /\ pc \in {"main", "read", "loop", "save", "report", "except", "raised", "done"}
    /\ in_code_block \in BOOLEAN
    /\ idx \in 0..(Len(lines) + 1)

(* ----------------- vocabulary of the properties below ------------------ *)
BeginsWith(s, p) == \A i \in 1..Len(p) : i <= Len(s) /\ s[i] = p[i]

Drop(s, n) == [i \in 1..(IF Len(s) > n THEN Len(s) - n ELSE 0) |-> s[i + n]]

IsDelimiter(line) == BeginsWith(line, FenceMark)

DelimsBefore(i) == Cardinality({j \in 1..(i - 1) : IsDelimiter(lines[j])})

OutsideFence(i) == DelimsBefore(i) % 2 = 0

NoDelimiterFrom(i) == \A j \in i..Len(lines) : ~IsDelimiter(lines[j])

LastDelimiterBefore(i) ==
    CHOOSE j \in 1..(i - 1) :
        IsDelimiter(lines[j]) /\ \A k \in (j + 1)..(i - 1) : ~IsDelimiter(lines[k])

RECURSIVE JoinedLines(_)
JoinedLines(parts) ==
    IF Len(parts) = 0 THEN <<>>
    ELSE IF Len(parts) = 1 THEN parts[1]
    ELSE JoinedLines(SubSeq(parts, 1, Len(parts) - 1)) \o <<"\n">> \o parts[Len(parts)]

AppendedOne == Len(doc') = Len(doc) + 1 /\ SubSeq(doc', 1, Len(doc)) = doc

NewBlock == doc'[Len(doc')]

Looping == pc \in {"loop", "save", "report", "except", "done"} /\ idx >= 1

(* Blocks the first k lines must have produced: one per line outside a     *)
(* fence, one per closing delimiter that directly follows buffered lines.  *)
ExpectedBlocks(k) ==
    Cardinality({i \in 1..k : ~IsDelimiter(lines[i]) /\ OutsideFence(i)})
    + Cardinality({i \in 2..k : IsDelimiter(lines[i]) /\ ~OutsideFence(i)
                                  /\ ~IsDelimiter(lines[i - 1])})

(* C1: blocks are emitted in input line order and every line yields zero   *)
(* or one block: a line outside a fence that is no delimiter yields        *)
(* exactly one (never a CodeBlock), a buffered line yields none, and a     *)
(* delimiter yields none of its own but may release one CodeBlock.         *)
C1_ZeroOrOneBlockPerLine ==
    /\ [](Looping => Len(doc) = ExpectedBlocks(idx - 1))
    /\ [][pc = "loop" =>
            LET line == lines[idx] IN
              IF IsDelimiter(line)
              THEN doc' = doc \/ (AppendedOne /\ NewBlock.kind = "CodeBlock")
              ELSE IF ~OutsideFence(idx) THEN doc' = doc
              ELSE AppendedOne /\ NewBlock.kind # "CodeBlock"]_vars

C1_Witness ==
    /\ pc = "save"
    /\ lines = <<Line1, FenceMark, Line1, FenceMark, <<>>>>
    /\ Len(doc) = 3
    /\ doc[2].kind = "CodeBlock"

(* C2: a line beginning with three backquotes toggles the fence flag; on   *)
(* closing, a non-empty buffer is emitted as exactly one CodeBlock holding *)
(* the buffered lines joined by a newline and the buffer is cleared, an    *)
(* empty buffer emits nothing; the spec's four-line example yields the     *)
(* single code block "line1\nline2".                                       *)
C2_FenceToggleAndFlush ==
    /\ [][(pc = "loop" /\ IsDelimiter(lines[idx])) =>
            /\ in_code_block' = ~in_code_block
            /\ IF in_code_block /\ code_block_content # <<>>
               THEN /\ AppendedOne
                    /\ NewBlock.kind = "CodeBlock"
                    /\ NewBlock.text = JoinedLines(code_block_content)
                    /\ code_block_content' = <<>>
               ELSE doc' = doc]_vars
    /\ []((pc = "save" /\ lines = <<FenceMark, Line1, Line2, FenceMark>>) =>
            /\ Len(doc) = 1
            /\ doc[1].kind = "CodeBlock"
            /\ doc[1].text = <<"l", "i", "n", "e", "1", "\n", "l", "i", "n", "e", "2">>)

C2_Witness ==
    /\ pc = "save"
    /\ lines = <<FenceMark, Line1, Line2, FenceMark>>
    /\ Len(doc) = 1
    /\ ~in_code_block

(* C3: when the input ends inside a fence, the loop still runs to the end  *)
(* without raising, and the unclosed opening delimiter and every line      *)
(* after it add nothing to the document.                                   *)
InUnterminatedFence(i) ==
    /\ NoDelimiterFrom(i + 1)
    /\ \/ IsDelimiter(lines[i]) /\ OutsideFence(i)
       \/ ~IsDelimiter(lines[i]) /\ ~OutsideFence(i)

C3_UnterminatedFenceDropped ==
    /\ [][pc = "loop" => pc' \in {"loop", "save"}]_vars
    /\ [][(pc = "loop" /\ InUnterminatedFence(idx)) => doc' = doc]_vars
    /\ []((pc = "save" /\ in_code_block) =>
            LET j == LastDelimiterBefore(Len(lines) + 1) IN
              /\ Len(doc) = ExpectedBlocks(j - 1)
              /\ code_block_content = SubSeq(lines, j + 1, Len(lines)))

C3_Witness ==
    /\ pc = "save"
    /\ in_code_block
    /\ lines = <<FenceMark, Line2>>
    /\ doc = <<>>
    /\ code_block_content = <<Line2>>

(* ------------- line shapes, stated without the model's helpers ---------- *)
HashPrefix(line, n) ==
    /\ Len(line) >= n + 1
    /\ \A i \in 1..n : line[i] = "#"
    /\ line[n + 1] = " "

IsHeadingLine(line) == \E n \in 1..4 : HashPrefix(line, n)

IsRuleLine(line) == BeginsWith(line, <<"-", "-", "-">>)

HasBoldMark(line) == \E i \in 1..(Len(line) - 1) : line[i] = "*" /\ line[i + 1] = "*"

IsBulletLine(line) == BeginsWith(line, <<"-", " ">>)

NumberPrefix(line, k) ==
    /\ k >= 1
    /\ Len(line) >= k + 2
    /\ \A i \in 1..k : line[i] \in {"1", "2"}
    /\ line[k + 1] = "."
    /\ line[k + 2] = " "

IsNumberedLine(line) == \E k \in 1..Len(line) : NumberPrefix(line, k)

FirstSpace(line) ==
    CHOOSE i \in 1..Len(line) : line[i] = " " /\ \A j \in 1..(i - 1) : line[j] # " "

HasVisibleChar(line) == \E i \in 1..Len(line) : line[i] \notin {" ", "\t"}

Classified(i) == pc = "loop" /\ idx = i /\ ~IsDelimiter(lines[i]) /\ OutsideFence(i)

(* Number of "**" marks found scanning left to right without overlap. *)
RECURSIVE CountMarks(_)
CountMarks(line) ==
    IF Len(line) < 2 THEN 0
    ELSE IF line[1] = "*" /\ line[2] = "*" THEN 1 + CountMarks(Drop(line, 2))
    ELSE CountMarks(Drop(line, 1))

RECURSIVE RunsText(_)
RunsText(runs) ==
    IF Len(runs) = 0 THEN <<>>
    ELSE IF Len(runs) = 1 THEN runs[1].text
    ELSE runs[1].text \o <<"*", "*">> \o RunsText(Tail(runs))

(* C4 as stated: a document without headings, lists, bold marks or fences  *)
(* yields one Paragraph per non-empty line and one BlankLine per empty     *)
(* line, in order, each Paragraph holding the line as-is.                  *)
PlainAsStated(line) ==
    /\ ~IsHeadingLine(line)
    /\ ~IsBulletLine(line)
    /\ ~IsNumberedLine(line)
    /\ ~HasBoldMark(line)
    /\ ~IsDelimiter(line)

C4_AsStated ==
    (pc = "save" /\ \A i \in 1..Len(lines) : PlainAsStated(lines[i])) =>
        /\ Len(doc) = Len(lines)
        /\ \A i \in 1..Len(lines) :
             IF lines[i] # <<>>
             THEN doc[i].kind = "Paragraph" /\ doc[i].text = lines[i]
             ELSE doc[i].kind = "BlankLine"

(* C4 amended: a document without headings, rules, lists, bold marks or    *)
(* fences yields one Paragraph (text = the line, untrimmed) per line that  *)
(* has a non-whitespace character and one BlankLine per line that is       *)
(* empty or whitespace-only, in order.                                     *)
C4_PlainDocument ==
    (pc = "save" /\ \A i \in 1..Len(lines) :
                        PlainAsStated(lines[i]) /\ ~IsRuleLine(lines[i])) =>
        /\ Len(doc) = Len(lines)
        /\ \A i \in 1..Len(lines) :
             IF HasVisibleChar(lines[i])
             THEN doc[i] = [kind |-> "Paragraph", level |-> 0, text |-> lines[i], runs |-> <<>>]
             ELSE doc[i].kind = "BlankLine" /\ doc[i].text = <<>>

C4_Witness ==
    /\ pc = "save"
    /\ lines = <<Line1, <<>>, Line1>>
    /\ Len(doc) = 3
    /\ doc[1].kind = "Paragraph"
    /\ doc[2].kind = "BlankLine"
    /\ doc[3].text = Line1

(* C5: outside a fence, a line of n hashes and a space (n in 1..4) yields  *)
(* a Heading of level n whose text is the line without its first n + 1     *)
(* characters; "#### x" is a level-4 heading, never level 1.               *)
C5_HeadingLevels ==
    [][\A n \in 1..4 :
         (Classified(idx) /\ HashPrefix(lines[idx], n)) =>
            /\ AppendedOne
            /\ NewBlock.kind = "Heading"
            /\ NewBlock.level = n
            /\ NewBlock.text = Drop(lines[idx], n + 1)]_vars

C5_Witness ==
    /\ pc = "save"
    /\ lines = << <<"#", "#", "#", "#", " ", "x">> >>
    /\ doc = << [kind |-> "Heading", level |-> 4, text |-> <<"x">>, runs |-> <<>>] >>

(* C6: a line taken by the bold rule is split at every "**"; the block has *)
(* one run per piece in order, run i (0-based) bold exactly when i is odd, *)
(* so an odd number of marks ends in a bold run; "**bold** and plain"      *)
(* yields ("", plain), ("bold", bold), (" and plain", plain).              *)
BoldRuleLine(line) == HasBoldMark(line) /\ ~IsHeadingLine(line) /\ ~IsRuleLine(line)

C6_BoldRuns ==
    /\ [][(Classified(idx) /\ BoldRuleLine(lines[idx])) =>
            /\ AppendedOne
            /\ NewBlock.kind = "MixedParagraph"
            /\ Len(NewBlock.runs) = CountMarks(lines[idx]) + 1
            /\ RunsText(NewBlock.runs) = lines[idx]
            /\ \A i \in 1..Len(NewBlock.runs) :
                 /\ NewBlock.runs[i].bold = ((i - 1) % 2 = 1)
                 /\ ~HasBoldMark(NewBlock.runs[i].text)
            /\ (CountMarks(lines[idx]) % 2 = 1) =>
                 NewBlock.runs[Len(NewBlock.runs)].bold]_vars
    /\ []((pc = "save" /\ lines = <<BoldExample>>) =>
            doc[1].runs = << [text |-> <<>>, bold |-> FALSE],
                             [text |-> <<"b", "o", "l", "d">>, bold |-> TRUE],
                             [text |-> <<" ", "a", "n", "d", " ", "p", "l", "a", "i", "n">>,
                              bold |-> FALSE] >>)

C6_Witness ==
    /\ pc = "save"
    /\ lines = <<BoldExample>>
    /\ Len(doc) = 1
    /\ doc[1].kind = "MixedParagraph"
    /\ Len(doc[1].runs) = 3

C6_WitnessOddMarks ==
    /\ pc = "save"
    /\ lines = << <<"x", "*", "*", "x">> >>
    /\ Len(doc[1].runs) = 2
    /\ doc[1].runs[2].bold

(* C7: outside a fence and without "**", a line beginning "- " yields a    *)
(* BulletItem with the text after those two characters, and a line         *)
(* beginning with digits, a period and a space yields a NumberedItem with  *)
(* the text after the first space; "- item" and "1. item" give "item".     *)
C7_ListItems ==
    /\ [][(Classified(idx) /\ IsBulletLine(lines[idx]) /\ ~HasBoldMark(lines[idx])) =>
            /\ AppendedOne
            /\ NewBlock.kind = "BulletItem"
            /\ NewBlock.text = Drop(lines[idx], 2)]_vars
    /\ [][pc = "loop" =>
            \A k \in 1..Len(lines[idx]) :
              (Classified(idx) /\ NumberPrefix(lines[idx], k) /\ ~HasBoldMark(lines[idx])) =>
                 /\ AppendedOne
                 /\ NewBlock.kind = "NumberedItem"
                 /\ NewBlock.text = Drop(lines[idx], k + 2)
                 /\ NewBlock.text = Drop(lines[idx], FirstSpace(lines[idx]))]_vars
    /\ []((pc = "save" /\ lines = <<BulletExample>>) =>
            (doc[1].kind = "BulletItem" /\ doc[1].text = <<"i", "t", "e", "m">>))
    /\ []((pc = "save" /\ lines = <<NumberedExample>>) =>
            (doc[1].kind = "NumberedItem" /\ doc[1].text = <<"i", "t", "e", "m">>))

C7_Witness ==
    /\ pc = "save"
    /\ lines = << <<"1", "2", ".", " ", "x", " ", "x">> >>
    /\ doc[1].kind = "NumberedItem"
    /\ doc[1].text = <<"x", " ", "x">>

(* C8: without the input file main attempts no conversion and returns;     *)
(* an exception of the conversion is caught in main, which still returns;  *)
(* the success message appears only after a conversion that returned.      *)
Mentions(msg) == \E i \in 1..Len(out) : out[i] = msg

C8_MainNeverRaises ==
    /\ pc # "raised"
    /\ ~md_exists => (pc \in {"main", "done"} /\ idx = 0 /\ doc = <<>> /\ ~saved)
    /\ (pc = "done" /\ ~md_exists) => out = <<"not_found">>
    /\ Mentions("success") => (saved /\ ~Mentions("error") /\ Mentions("converted"))
    /\ (pc = "done" /\ md_exists) => (Mentions("success") \/ Mentions("error"))

C8_Witness ==
    /\ pc = "done"
    /\ md_exists
    /\ idx > Len(lines)
    /\ ~saved
    /\ out = <<"error">>

C8_WitnessNotFound == pc = "done" /\ ~md_exists /\ out = <<"not_found">>

(* C9: first match wins: a list line that contains "**" becomes a          *)
(* MixedParagraph split over the whole line, never a list item; a heading  *)
(* or rule line that contains "**" stays a Heading or Rule; a delimiter    *)
(* line and a line inside a fence are never classified.                    *)
C9_FirstMatchWins ==
    [][pc = "loop" =>
         LET line == lines[idx] IN
           /\ (Classified(idx) /\ HasBoldMark(line)
                 /\ (IsBulletLine(line) \/ IsNumberedLine(line))) =>
                 /\ AppendedOne
                 /\ NewBlock.kind = "MixedParagraph"
                 /\ RunsText(NewBlock.runs) = line
           /\ (Classified(idx) /\ HasBoldMark(line) /\ IsHeadingLine(line)) =>
                 (AppendedOne /\ NewBlock.kind = "Heading")
           /\ (Classified(idx) /\ HasBoldMark(line) /\ IsRuleLine(line)) =>
                 (AppendedOne /\ NewBlock.kind = "Rule")
           /\ (Classified(idx) /\ IsRuleLine(line)) =>
                 (AppendedOne /\ NewBlock.kind = "Rule")
           /\ (Classified(idx) /\ IsHeadingLine(line)) =>
                 (AppendedOne /\ NewBlock.kind = "Heading")
           /\ ~Classified(idx) =>
                 (doc' = doc \/ (AppendedOne /\ NewBlock.kind = "CodeBlock"))]_vars

C9_Witness ==
    /\ pc = "save"
    /\ lines = << <<"-", " ", "*", "*", "x">> >>
    /\ doc[1].kind = "MixedParagraph"
    /\ doc[1].runs[1].text = <<"-", " ">>

(* C10: outside a fence the buffer is empty; a non-delimiter line handled  *)
(* outside a fence leaves flag and buffer alone; every emitted CodeBlock   *)
(* holds exactly the lines between its own delimiters, verbatim.           *)
C10_FenceStateFrame ==
    /\ [](~in_code_block => code_block_content = <<>>)
    /\ [][(pc = "loop" /\ ~in_code_block /\ ~IsDelimiter(lines[idx])) =>
            (in_code_block' = in_code_block /\ code_block_content' = code_block_content)]_vars
    /\ [][(pc = "loop" /\ Len(doc') > Len(doc) /\ NewBlock.kind = "CodeBlock") =>
            /\ IsDelimiter(lines[idx])
            /\ DelimsBefore(idx) >= 1
            /\ NewBlock.text =
                 JoinedLines(SubSeq(lines, LastDelimiterBefore(idx) + 1, idx - 1))]_vars

C10_Witness ==
    /\ pc = "save"
    /\ lines = <<FenceMark, <<"#", " ", "x">>, FenceMark, FenceMark, Line1, FenceMark>>
    /\ Len(doc) = 2
    /\ doc[1].text = <<"#", " ", "x">>
    /\ doc[2].text = Line1

====
